---- MODULE Spec2Model ----
(***************************************************************************)
(* Model of crawler.go: crawlDomain (the scheduler loop), the worker       *)
(* goroutines it spawns, getLinks with the counter channel used as a       *)
(* limiter, and the two URL filters isImageLink and isSameDomain.          *)
(*                                                                         *)
(* A URL is a sequence of one-character strings.  fetcher.Get is an        *)
(* interface call: its result is chosen when the call returns.             *)
(* SeqSpec lets the process call crawlDomain again after it has returned.  *)
(***************************************************************************)
EXTENDS Integers, Sequences, FiniteSets, TLC

(* ----------------------------- bounds ---------------------------------- *)

\* Total number of links all fetcher.Get calls of one crawl may return.
MaxWeb == 3

\* Number of crawlDomain calls the process makes one after the other.
MaxCalls == 2

\* Capacity of the counter channel.  crawler.go:124 makes it 20; the model
\* scales it down so that workers do find the limiter full.
K == 1

(* ------------------------------ URLs ----------------------------------- *)

Root == <<"h", "o">>
PageA == <<"h", "o", "/", "a">>
PageB == <<"h", "o", "/", "b">>
Img == <<"h", "o", "/", "p", ".", "J", "p", "g">>
Ext == <<"h", "x">>

Urls == {Root, PageA, PageB, Img, Ext}

\* The URLs crawlDomain is called with.
Seeds == {Root, PageA, Img}

\* All link lists of at most k links.
LinkLists(k) == UNION {[1..m -> Urls] : m \in 0..k}

(* ----------------------------- filters --------------------------------- *)

\* \s of the regular expression
Whitespace == {" ", "\t", "\n", "\f", "\r"}

\* (jpg|png|gif|bmp|tiff)
ImageExts == {<<"j", "p", "g">>, <<"p", "n", "g">>, <<"g", "i", "f">>,
              <<"b", "m", "p">>, <<"t", "i", "f", "f">>}

\* Case folding of (?i), for the letters of the extensions.
ToLower(c) ==
    CASE c = "J" -> "j" [] c = "P" -> "p" [] c = "G" -> "g" [] c = "N" -> "n"
      [] c = "I" -> "i" [] c = "F" -> "f" [] c = "B" -> "b" [] c = "M" -> "m"
      [] c = "T" -> "t" [] OTHER -> c

\* url ends with ext, ignoring case
HasSuffixFold(url, ext) ==
    /\ Len(url) >= Len(ext)
    /\ \A j \in 1..Len(ext) : ToLower(url[Len(url) - Len(ext) + j]) = ext[j]

\* isImageLink: ([^\s]+(\.(?i)(jpg|png|gif|bmp|tiff))$) matches url
isImageLink(url) ==
    \E ext \in ImageExts :
        /\ Len(url) >= Len(ext) + 2
        /\ HasSuffixFold(url, ext)
        /\ url[Len(url) - Len(ext)] = "."
        /\ url[Len(url) - Len(ext) - 1] \notin Whitespace

\* isSameDomain: strings.HasPrefix(url, domain)
isSameDomain(domain, url) ==
    /\ Len(url) >= Len(domain)
    /\ SubSeq(url, 1, Len(domain)) = domain

(* ------------------------------ state ---------------------------------- *)

VARIABLES
    call,      \* number of the crawlDomain call that runs or has just returned
    seed,      \* the url parameter of crawlDomain
    counter,   \* number of elements in the counter channel
    visited,   \* visited[u]: the map of crawlDomain
    sitemap,   \* the sitemap: a function whose domain is the set of keys
    mutex,     \* mutex[c]: the mutex of call c is locked
    n,         \* pages still to crawl
    pc,        \* position of the scheduler loop
    links,     \* the list received in this iteration
    i,         \* index of the range over links
    seedSent,  \* the seed goroutine has delivered <<url>> on pages
    workers,   \* the worker goroutines that have not ended, in spawn order
    prevSeed   \* the url parameter of the previous call, <<>> in the first call

vars == <<call, seed, counter, visited, sitemap, mutex, n, pc, links, i, seedSent, workers, prevSeed>>

Workers == 1..Len(workers)

RECURSIVE SumLinks(_, _)
SumLinks(ws, k) == IF k = 0 THEN 0 ELSE Len(ws[k].links) + SumLinks(ws, k - 1)

\* Links returned so far by the fetcher.
UsedWeb == SumLinks(workers, Len(workers))

SetWorker(w, f) == [workers EXCEPT ![w] = f]

\* The start of crawlDomain as it would be if it marked the seed itself.
InitSeedVisited ==
    /\ call = 1
    /\ seed \in Seeds
    /\ counter = 0
    /\ visited = [u \in Urls |-> u = seed]
    /\ sitemap = <<>>
    /\ mutex = [c \in 1..MaxCalls |-> FALSE]
    /\ n = 1
    /\ pc = "test"
    /\ links = <<>>
    /\ i = 1
    /\ seedSent = FALSE
    /\ workers = <<>>
    /\ prevSeed = <<>>

Init ==
    /\ call = 1
    /\ seed \in Seeds
    /\ counter = 0
    /\ visited = [u \in Urls |-> FALSE]
    /\ sitemap = <<>>
    /\ mutex = [c \in 1..MaxCalls |-> FALSE]
    /\ n = 1
    /\ pc = "test"
    /\ links = <<>>
    /\ i = 1
    /\ seedSent = FALSE
    /\ workers = <<>>
    /\ prevSeed = <<>>

(* ---------------------------- scheduler -------------------------------- *)

\* The loop test as it would be with n > 1.
LoopTestEarly ==
    /\ pc = "test"
    /\ pc' = IF n > 1 THEN "recv" ELSE "done"
    /\ UNCHANGED <<prevSeed, call, seed, counter, visited, sitemap, mutex, n, links, i, seedSent, workers>>

\* for ; n > 0; ...
LoopTest ==
    /\ pc = "test"
    /\ pc' = IF n > 0 THEN "recv" ELSE "done"
    /\ UNCHANGED <<prevSeed, call, seed, counter, visited, sitemap, mutex, n, links, i, seedSent, workers>>

\* links := <-pages, meeting the seed goroutine's send
ReceiveSeed ==
    /\ pc = "recv"
    /\ ~seedSent
    /\ seedSent' = TRUE
    /\ links' = <<seed>>
    /\ i' = 1
    /\ pc' = "range"
    /\ UNCHANGED <<prevSeed, call, seed, counter, visited, sitemap, mutex, n, workers>>

\* links := <-pages, meeting worker w's send of its list
ReceiveWorker(w) ==
    /\ pc = "recv"
    /\ workers[w].pc = "send"
    /\ workers[w].call = call
    /\ links' = workers[w].list
    /\ i' = 1
    /\ pc' = "range"
    /\ workers' = SetWorker(w, [workers[w] EXCEPT !.pc = "done"])
    /\ UNCHANGED <<prevSeed, call, seed, counter, visited, sitemap, mutex, n, seedSent>>

\* The condition with the arguments of isSameDomain exchanged.
ShouldCrawlSwapped(v, url, link) ==
    ~v[link] /\ ~isImageLink(link) /\ isSameDomain(link, url)

\* The condition without its first conjunct.
ShouldCrawlNoVisited(v, url, link) ==
    ~isImageLink(link) /\ isSameDomain(url, link)

\* The condition without its second conjunct.
ShouldCrawlNoImage(v, url, link) ==
    ~v[link] /\ isSameDomain(url, link)

\* The condition of line 144.
ShouldCrawl(v, url, link) ==
    ~v[link] /\ ~isImageLink(link) /\ isSameDomain(url, link)

\* go func(link string) { ... }(link)
NewWorker(link) ==
    [url |-> link, call |-> call, pc |-> "acquire", links |-> <<>>, err |-> FALSE, list |-> <<>>]

\* Range as it would be with visited[link] = true placed before the if.
RangeMarkAll ==
    /\ pc = "range"
    /\ i <= Len(links)
    /\ LET link == links[i] IN
         /\ visited' = [visited EXCEPT ![link] = TRUE]
         /\ IF ShouldCrawl(visited, seed, link)
            THEN /\ n' = n + 1
                 /\ workers' = Append(workers, NewWorker(link))
            ELSE UNCHANGED <<n, workers>>
    /\ i' = i + 1
    /\ UNCHANGED <<prevSeed, call, seed, counter, sitemap, mutex, pc, links, seedSent>>

\* Range as it would be without the visited[link] = true of line 145.
RangeNoMark ==
    /\ pc = "range"
    /\ i <= Len(links)
    /\ LET link == links[i] IN
         IF ShouldCrawl(visited, seed, link)
         THEN /\ visited' = visited
              /\ n' = n + 1
              /\ workers' = Append(workers, NewWorker(link))
         ELSE UNCHANGED <<visited, n, workers>>
    /\ i' = i + 1
    /\ UNCHANGED <<prevSeed, call, seed, counter, sitemap, mutex, pc, links, seedSent>>

\* Range as it would be with the n++ placed before the if.
RangeCountAll ==
    /\ pc = "range"
    /\ i <= Len(links)
    /\ n' = n + 1
    /\ LET link == links[i] IN
         IF ShouldCrawl(visited, seed, link)
         THEN /\ visited' = [visited EXCEPT ![link] = TRUE]
              /\ workers' = Append(workers, NewWorker(link))
         ELSE UNCHANGED <<visited, workers>>
    /\ i' = i + 1
    /\ UNCHANGED <<prevSeed, call, seed, counter, sitemap, mutex, pc, links, seedSent>>

\* Range as it would be without the n++ of line 146.
RangeNoCount ==
    /\ pc = "range"
    /\ i <= Len(links)
    /\ LET link == links[i] IN
         IF ShouldCrawl(visited, seed, link)
         THEN /\ visited' = [visited EXCEPT ![link] = TRUE]
              /\ n' = n
              /\ workers' = Append(workers, NewWorker(link))
         ELSE UNCHANGED <<visited, n, workers>>
    /\ i' = i + 1
    /\ UNCHANGED <<prevSeed, call, seed, counter, sitemap, mutex, pc, links, seedSent>>

\* One iteration of: for _, link := range links
Range ==
    /\ pc = "range"
    /\ i <= Len(links)
    /\ LET link == links[i] IN
         IF ShouldCrawl(visited, seed, link)
         THEN /\ visited' = [visited EXCEPT ![link] = TRUE]
              /\ n' = n + 1
              /\ workers' = Append(workers, NewWorker(link))
         ELSE UNCHANGED <<visited, n, workers>>
    /\ i' = i + 1
    /\ UNCHANGED <<prevSeed, call, seed, counter, sitemap, mutex, pc, links, seedSent>>

\* The loop without its post statement.
PostNoDec ==
    /\ pc = "range"
    /\ i > Len(links)
    /\ n' = n
    /\ pc' = "test"
    /\ UNCHANGED <<prevSeed, call, seed, counter, visited, sitemap, mutex, links, i, seedSent, workers>>

\* The range is over; n--
Post ==
    /\ pc = "range"
    /\ i > Len(links)
    /\ n' = n - 1
    /\ pc' = "test"
    /\ UNCHANGED <<prevSeed, call, seed, counter, visited, sitemap, mutex, links, i, seedSent, workers>>

(* ------------------------------ workers -------------------------------- *)

\* A send that proceeds when the channel already holds K elements.
CanAcquireOffByOne(c) == c <= K

\* A send on counter can proceed.
CanAcquire(c) == c < K

\* getLinks: counter <- struct{}{}
Acquire(w) ==
    /\ workers[w].pc = "acquire"
    /\ CanAcquire(counter)
    /\ counter' = counter + 1
    /\ workers' = SetWorker(w, [workers[w] EXCEPT !.pc = "get"])
    /\ UNCHANGED <<prevSeed, call, seed, visited, sitemap, mutex, n, pc, links, i, seedSent>>

\* getLinks: links, err := fetcher.Get(url) returns
GetReturn(w) ==
    /\ workers[w].pc = "get"
    /\ \E e \in BOOLEAN : \E l \in LinkLists(MaxWeb - UsedWeb) :
         workers' = SetWorker(w, [workers[w] EXCEPT !.pc = "release", !.links = l, !.err = e])
    /\ UNCHANGED <<prevSeed, call, seed, counter, visited, sitemap, mutex, n, pc, links, i, seedSent>>

\* getLinks without the error branch.
getLinksKeep(l, e) == l

\* What getLinks returns, lines 169-173.
getLinksResult(l, e) == IF e THEN <<>> ELSE l

\* Release as it would be with the error return placed before <-counter.
ReleaseOnSuccess(w) ==
    /\ workers[w].pc = "release"
    /\ counter > 0
    /\ counter' = IF workers[w].err THEN counter ELSE counter - 1
    /\ workers' = SetWorker(w, [workers[w] EXCEPT
                     !.pc = "lock",
                     !.list = getLinksResult(workers[w].links, workers[w].err)])
    /\ UNCHANGED <<prevSeed, call, seed, visited, sitemap, mutex, n, pc, links, i, seedSent>>

\* getLinks: <-counter, then the return
Release(w) ==
    /\ workers[w].pc = "release"
    /\ counter > 0
    /\ counter' = counter - 1
    /\ workers' = SetWorker(w, [workers[w] EXCEPT
                     !.pc = "lock",
                     !.list = getLinksResult(workers[w].links, workers[w].err)])
    /\ UNCHANGED <<prevSeed, call, seed, visited, sitemap, mutex, n, pc, links, i, seedSent>>

\* Lock as it would be if it did not wait for the mutex.
LockNoWait(w) ==
    /\ workers[w].pc = "lock"
    /\ mutex' = [mutex EXCEPT ![workers[w].call] = TRUE]
    /\ workers' = SetWorker(w, [workers[w] EXCEPT !.pc = "write"])
    /\ UNCHANGED <<prevSeed, call, seed, counter, visited, sitemap, n, pc, links, i, seedSent>>

\* mutex.Lock()
Lock(w) ==
    /\ workers[w].pc = "lock"
    /\ ~mutex[workers[w].call]
    /\ mutex' = [mutex EXCEPT ![workers[w].call] = TRUE]
    /\ workers' = SetWorker(w, [workers[w] EXCEPT !.pc = "write"])
    /\ UNCHANGED <<prevSeed, call, seed, counter, visited, sitemap, n, pc, links, i, seedSent>>

\* m[k] = v of a Go map
MapSet(m, k, v) == [u \in DOMAIN m \cup {k} |-> IF u = k THEN v ELSE m[u]]

\* Write as it would be if the worker stored only the links it would crawl.
WriteFiltered(w) ==
    /\ workers[w].pc = "write"
    /\ LET Keep(l) == ~isImageLink(l) /\ isSameDomain(seed, l) IN
         sitemap' = MapSet(sitemap, workers[w].url, SelectSeq(workers[w].list, Keep))
    /\ workers' = SetWorker(w, [workers[w] EXCEPT !.pc = "unlock"])
    /\ UNCHANGED <<prevSeed, call, seed, counter, visited, mutex, n, pc, links, i, seedSent>>

\* Write as it would be if the worker stored non-empty lists only.
WriteSkipEmpty(w) ==
    /\ workers[w].pc = "write"
    /\ sitemap' = IF workers[w].list = <<>> THEN sitemap
                  ELSE MapSet(sitemap, workers[w].url, workers[w].list)
    /\ workers' = SetWorker(w, [workers[w] EXCEPT !.pc = "unlock"])
    /\ UNCHANGED <<prevSeed, call, seed, counter, visited, mutex, n, pc, links, i, seedSent>>

\* Write as it would be if the worker also marked the links of its list.
WriteAndMark(w) ==
    /\ workers[w].pc = "write"
    /\ sitemap' = MapSet(sitemap, workers[w].url, workers[w].list)
    /\ visited' = [u \in Urls |->
                     visited[u] \/ \E j \in 1..Len(workers[w].list) : workers[w].list[j] = u]
    /\ workers' = SetWorker(w, [workers[w] EXCEPT !.pc = "unlock"])
    /\ UNCHANGED <<prevSeed, call, seed, counter, mutex, n, pc, links, i, seedSent>>

\* sitemap[link] = list
Write(w) ==
    /\ workers[w].pc = "write"
    /\ sitemap' = MapSet(sitemap, workers[w].url, workers[w].list)
    /\ workers' = SetWorker(w, [workers[w] EXCEPT !.pc = "unlock"])
    /\ UNCHANGED <<prevSeed, call, seed, counter, visited, mutex, n, pc, links, i, seedSent>>

\* The worker without its mutex.Unlock().
UnlockSkipped(w) ==
    /\ workers[w].pc = "unlock"
    /\ mutex' = mutex
    /\ workers' = SetWorker(w, [workers[w] EXCEPT !.pc = "send"])
    /\ UNCHANGED <<prevSeed, call, seed, counter, visited, sitemap, n, pc, links, i, seedSent>>

\* mutex.Unlock()
Unlock(w) ==
    /\ workers[w].pc = "unlock"
    /\ mutex' = [mutex EXCEPT ![workers[w].call] = FALSE]
    /\ workers' = SetWorker(w, [workers[w] EXCEPT !.pc = "send"])
    /\ UNCHANGED <<prevSeed, call, seed, counter, visited, sitemap, n, pc, links, i, seedSent>>

(* ----------------------------- next call ------------------------------- *)

\* A worker goroutine whose function has not returned.
Alive(r) == r.pc # "done"

\* CallAgain as it would be without the sitemap = make(...) of line 128.
CallAgainKeepSitemap ==
    /\ pc = "done"
    /\ call < MaxCalls
    /\ call' = call + 1
    /\ seed' \in Seeds
    /\ counter' = 0
    /\ visited' = [u \in Urls |-> FALSE]
    /\ sitemap' = sitemap
    /\ mutex' = [mutex EXCEPT ![call + 1] = FALSE]
    /\ n' = 1
    /\ pc' = "test"
    /\ links' = <<>>
    /\ i' = 1
    /\ seedSent' = FALSE
    /\ workers' = SelectSeq(workers, Alive)
    /\ prevSeed' = seed

\* crawlDomain has returned and is called again: lines 124-137 make a new
\* counter channel, visited map, sitemap, mutex and pages channel, set n to
\* 1 and start the seed goroutine.  Goroutines of the earlier call that have
\* not ended go on running.
CallAgain ==
    /\ pc = "done"
    /\ call < MaxCalls
    /\ call' = call + 1
    /\ seed' \in Seeds
    /\ counter' = 0
    /\ visited' = [u \in Urls |-> FALSE]
    /\ sitemap' = <<>>
    /\ mutex' = [mutex EXCEPT ![call + 1] = FALSE]
    /\ n' = 1
    /\ pc' = "test"
    /\ links' = <<>>
    /\ i' = 1
    /\ seedSent' = FALSE
    /\ workers' = SelectSeq(workers, Alive)
    /\ prevSeed' = seed

(* --------------------------- specification ----------------------------- *)

Scheduler ==
    \/ LoopTest
    \/ ReceiveSeed
    \/ \E w \in Workers : ReceiveWorker(w)
    \/ Range
    \/ Post

Worker ==
    \E w \in Workers :
        \/ Acquire(w)
        \/ Release(w)
        \/ Lock(w)
        \/ Write(w)
        \/ Unlock(w)

Fetcher == \E w \in Workers : GetReturn(w)

Next == Scheduler \/ Worker \/ Fetcher

Spec == Init /\ [][Next]_vars

\* The process calls crawlDomain up to MaxCalls times, one call after the other.
SeqSpec == Init /\ [][Next \/ CallAgain]_vars

\* Goroutines that can run do run, and every fetcher.Get call returns.
FairSpec == Spec /\ WF_vars(Scheduler) /\ WF_vars(Worker) /\ WF_vars(Fetcher)

(* ------------------------ derived quantities --------------------------- *)

InList(u, l) == \E j \in 1..Len(l) : l[j] = u

\* Workers spawned for u.
WorkersOf(u) == {w \in Workers : workers[w].url = u}

\* Worker w has delivered its list and the scheduler has received it.
Delivered(w) == workers[w].pc = "done"

\* fetcher.Get has returned to worker w.
Returned(w) == workers[w].pc \in {"release", "lock", "write", "unlock", "send", "done"}

\* Worker w has executed sitemap[link] = list.
Wrote(w) == workers[w].pc \in {"unlock", "send", "done"}

\* Workers between the send on counter and the receive from counter.
InGet == {w \in Workers : workers[w].pc \in {"get", "release"}}

VisitedUrls == {u \in Urls : visited[u]}

AllDelivered == seedSent /\ \A w \in Workers : Delivered(w)

TypeOK ==
    /\ seed \in Seeds
    /\ counter \in 0..K
    /\ n \in Nat
    /\ pc \in {"test", "recv", "range", "done"}
    /\ call \in 1..MaxCalls
    /\ mutex \in [1..MaxCalls -> BOOLEAN]

(* ------------------------------ claims --------------------------------- *)

\* C1: if every fetcher.Get call returns and the goroutines are scheduled
\* fairly, crawlDomain returns: n reaches 0 and the loop exits, also on
\* graphs with self-links and mutual links.
C1_Terminates == <>(pc = "done" /\ n = 0)

\* The crawl of a graph with two pages linking to each other has returned.
C1_Witness ==
    /\ pc = "done"
    /\ \E w1, w2 \in Workers :
         /\ w1 # w2
         /\ InList(workers[w1].url, workers[w2].list)
         /\ InList(workers[w2].url, workers[w1].list)

\* C2: the loop exits exactly when nothing is outstanding: at the loop test
\* n = 0 holds iff the seed message and the list of every spawned worker
\* have been received, and after the exit no worker is still to deliver.
C2_ExitIffNoOutstanding ==
    /\ pc = "test" => (n = 0 <=> AllDelivered)
    /\ pc = "done" => AllDelivered

\* The loop has exited after three workers were spawned.
C2_Witness == pc = "done" /\ Len(workers) = 3

\* C3: when crawlDomain returns, the keys of sitemap are exactly the URLs
\* marked true in visited (and so are as many); in every state the keys of
\* sitemap are among the visited URLs.
C3_SitemapMatchesVisited ==
    /\ DOMAIN sitemap \subseteq VisitedUrls
    /\ pc = "done" =>
         /\ DOMAIN sitemap = VisitedUrls
         /\ Cardinality(DOMAIN sitemap) = Cardinality(VisitedUrls)

\* crawlDomain has returned with three pages in the sitemap, after it has
\* seen an image link or an external link.
C3_Witness ==
    /\ pc = "done"
    /\ Cardinality(DOMAIN sitemap) = 3
    /\ \E w \in Workers : InList(Img, workers[w].list) \/ InList(Ext, workers[w].list)

\* C4: for every URL at most one worker is spawned and fetcher.Get is called
\* at most once, a URL has a worker only if it is marked in visited, and a
\* mark in visited is never taken back nor set without spawning the one worker.
C4_Inv ==
    \A u \in Urls :
        /\ Cardinality(WorkersOf(u)) <= 1
        /\ Cardinality({w \in WorkersOf(u) : workers[w].pc # "acquire"}) <= 1
        /\ visited[u] <=> WorkersOf(u) # {}

C4_Step ==
    \A u \in Urls :
        /\ visited[u] => visited'[u]
        /\ visited[u] => Cardinality({w \in 1..Len(workers') : workers'[w].url = u}) = 1

C4_SpawnedOnce == []C4_Inv /\ [][C4_Step]_vars

\* The scheduler has gone through a list that names a page twice, or names
\* the page it was fetched from, or names a page another list named before.
C4_Witness ==
    /\ pc = "range"
    /\ i > Len(links)
    /\ \E j \in 1..Len(links) :
         /\ ~isImageLink(links[j])
         /\ isSameDomain(seed, links[j])
         /\ \/ \E k \in 1..Len(links) : k < j /\ links[k] = links[j]
            \/ \E w \in Workers : Delivered(w) /\ workers[w].url = links[j]

\* C5: a key of sitemap is written by exactly one worker, once, and all
\* writes are done when crawlDomain returns; a value once written never
\* changes, nor does the key disappear.
C5_Inv ==
    /\ \A u \in DOMAIN sitemap :
         Cardinality({w \in WorkersOf(u) : Wrote(w)}) = 1
    /\ pc = "done" => \A w \in Workers : Wrote(w)

C5_Step ==
    \A u \in DOMAIN sitemap : u \in DOMAIN sitemap' /\ sitemap'[u] = sitemap[u]

C5_WrittenOnce == []C5_Inv /\ [][C5_Step]_vars

\* The seed page is in the sitemap with a non-empty list and the scheduler
\* has just met a link back to it.
C5_Witness ==
    /\ pc = "range"
    /\ i > 1
    /\ i <= Len(links) + 1
    /\ links[i - 1] = seed
    /\ seed \in DOMAIN sitemap
    /\ sitemap[seed] # <<>>

\* C6: no key of sitemap is an image link or a URL outside the domain of
\* the seed, and no worker is spawned (so fetcher.Get is not called) for one.
C6_KeysEligible ==
    /\ \A u \in DOMAIN sitemap : ~isImageLink(u) /\ isSameDomain(seed, u)
    /\ \A w \in Workers : ~isImageLink(workers[w].url) /\ isSameDomain(seed, workers[w].url)

\* crawlDomain has returned and a value list holds the image and the
\* external link, neither of which is a key.
C6_Witness ==
    /\ pc = "done"
    /\ \E u \in DOMAIN sitemap : InList(Img, sitemap[u]) /\ InList(Ext, sitemap[u])
    /\ Img \notin DOMAIN sitemap
    /\ Ext \notin DOMAIN sitemap

\* C7: at most K workers are between the send on counter and the receive
\* from counter, and a worker passes the send only when fewer than K are.
C7_Inv == Cardinality(InGet) <= K

C7_Step ==
    \A w \in Workers :
        (workers[w].pc = "acquire" /\ workers'[w].pc = "get") => Cardinality(InGet) < K

C7_LimiterBound == []C7_Inv /\ [][C7_Step]_vars

\* K workers are inside fetcher.Get and another one waits at the send.
C7_Witness ==
    /\ Cardinality({w \in Workers : workers[w].pc = "get"}) = K
    /\ \E w \in Workers : workers[w].pc = "acquire"

\* A link the scheduler crawls when it meets it first.
Eligible(u) == ~isImageLink(u) /\ isSameDomain(seed, u)

\* The list a successful fetcher.Get(u) returned; empty when Get failed or
\* was not called.
FetchedLinks(u) ==
    IF \E w \in WorkersOf(u) : Returned(w) /\ ~workers[w].err
    THEN workers[CHOOSE w \in WorkersOf(u) : Returned(w) /\ ~workers[w].err].links
    ELSE <<>>

RECURSIVE Closure(_)
Closure(S) ==
    LET T == S \cup {l \in Urls : Eligible(l) /\ \E u \in S : InList(l, FetchedLinks(u))}
    IN IF T = S THEN S ELSE Closure(T)

\* The least set that holds the seed if eligible and the eligible links of
\* its successfully fetched members.
Reachable == Closure(IF Eligible(seed) THEN {seed} ELSE {})

\* C8: when crawlDomain returns, the keys of sitemap are exactly the pages
\* reachable from the seed through eligible links of successful fetches.
C8_KeysAreReachable == pc = "done" => DOMAIN sitemap = Reachable

\* crawlDomain has returned from a crawl of three reachable pages, one of
\* which failed, with a link list that named something not to crawl.
C8_Witness ==
    /\ pc = "done"
    /\ Cardinality(Reachable) = 3
    /\ \E w \in Workers : workers[w].err
    /\ \E w \in Workers : \E j \in 1..Len(workers[w].list) : ~Eligible(workers[w].list[j])

\* C9: in the final sitemap the value of a key whose fetch succeeded is the
\* list fetcher.Get returned: same length, same order, nothing removed.
C9_RawList ==
    pc = "done" =>
        \A w \in Workers :
            ~workers[w].err =>
                /\ workers[w].url \in DOMAIN sitemap
                /\ sitemap[workers[w].url] = workers[w].links

\* crawlDomain has returned and a value holds three links, one twice and
\* one an image.
C9_Witness ==
    /\ pc = "done"
    /\ \E u \in DOMAIN sitemap :
         /\ Len(sitemap[u]) = 3
         /\ sitemap[u][1] = sitemap[u][3]
         /\ isImageLink(sitemap[u][2])

\* C10: a failed fetcher.Get makes getLinks return the empty list; the
\* worker records its URL with the empty list, delivers the empty list,
\* no second worker is spawned for the URL, and the crawl still returns.
C10_Inv ==
    \A w \in Workers :
        workers[w].err =>
            /\ workers[w].pc \in {"lock", "write", "unlock", "send", "done"} => workers[w].list = <<>>
            /\ Wrote(w) => workers[w].url \in DOMAIN sitemap /\ sitemap[workers[w].url] = <<>>
            /\ WorkersOf(workers[w].url) = {w}

C10_Step ==
    \A w \in Workers :
        (workers[w].err /\ workers[w].pc = "send" /\ workers'[w].pc = "done") => links' = <<>>

SomeFetchFailed == \E w \in Workers : workers[w].err

C10_FailureAbsorbed ==
    /\ []C10_Inv
    /\ [][C10_Step]_vars
    /\ SomeFetchFailed ~> (pc = "done" /\ n = 0 /\ \A w \in Workers : Delivered(w))

\* crawlDomain has returned after two fetches failed, one of them with
\* links returned next to the error.
C10_Witness ==
    /\ pc = "done"
    /\ Cardinality({w \in Workers : workers[w].err}) = 2
    /\ \E w \in Workers : workers[w].err /\ workers[w].links # <<>>

\* C11: a second crawlDomain call starts with nothing marked in visited, an
\* empty sitemap, n = 1 and an empty counter channel; no worker goroutine of
\* the earlier call is alive during it, every sitemap entry is the write of
\* a worker of the running call, and when the call returns the keys are the
\* pages reachable in this call, the seed (if eligible) fetched again.
C11_FreshPerCall ==
    /\ \A w \in Workers : workers[w].call = call
    /\ (pc = "test" /\ ~seedSent) =>
         /\ VisitedUrls = {}
         /\ sitemap = <<>>
         /\ n = 1
         /\ counter = 0
    /\ \A u \in DOMAIN sitemap :
         \E w \in Workers :
             /\ workers[w].call = call
             /\ workers[w].url = u
             /\ Wrote(w)
             /\ sitemap[u] = workers[w].list
    /\ pc = "done" =>
         /\ DOMAIN sitemap = Reachable
         /\ Eligible(seed) =>
              \E w \in Workers : workers[w].call = call /\ workers[w].url = seed /\ Returned(w)

\* The second call has returned; it crawled the seed the first call had
\* crawled and put its links into the sitemap.
C11_Witness ==
    /\ call = 2
    /\ pc = "done"
    /\ prevSeed = Root
    /\ seed = Root
    /\ Root \in DOMAIN sitemap
    /\ sitemap[Root] # <<>>

\* C12: the counter channel holds one element per worker that is between
\* its send on counter and its receive from counter, whether fetcher.Get
\* failed or not; it is empty when crawlDomain returns.
C12_SlotsMatchFetches ==
    /\ counter = Cardinality(InGet)
    /\ (\A w \in Workers : workers[w].pc \notin {"get", "release"}) => counter = 0
    /\ pc = "done" => counter = 0

\* A worker whose fetch failed has given its slot back and another worker
\* holds the slot.
C12_Witness ==
    /\ counter = 1
    /\ \E w1, w2 \in Workers :
         /\ workers[w1].err
         /\ workers[w1].pc \in {"lock", "write", "unlock", "send"}
         /\ workers[w2].pc = "get"

\* C13: visited and n change only in a step of the scheduler loop: a step
\* that changes one of them is a step of the range over the received list
\* (or the n-- that ends it) and moves no worker.
C13_Step ==
    (visited' # visited \/ n' # n) =>
        /\ pc = "range"
        /\ \A w \in Workers : workers'[w] = workers[w]
        /\ UNCHANGED <<sitemap, counter, mutex>>

C13_SchedulerOwnsVisited == [][C13_Step]_vars

\* The scheduler is about to test a link against visited while a worker
\* is inside fetcher.Get and another is about to write the sitemap.
C13_Witness ==
    /\ pc = "range"
    /\ i <= Len(links)
    /\ \E w1, w2 \in Workers : workers[w1].pc = "get" /\ workers[w2].pc = "write"

\* Workers between mutex.Lock() and mutex.Unlock().
InCritical == {w \in Workers : workers[w].pc \in {"write", "unlock"}}

\* C14: at most one worker is between Lock and Unlock, the mutex is locked
\* exactly while one is (so no worker that waits to send or has ended holds
\* it), and every step that changes sitemap is made by the worker inside.
C14_Inv ==
    /\ Cardinality(InCritical) <= 1
    /\ mutex[call] <=> InCritical # {}

C14_Step ==
    sitemap' # sitemap =>
        /\ mutex[call]
        /\ \E w \in InCritical : workers[w].pc = "write" /\ workers'[w].pc = "unlock"

C14_WritesUnderMutex == []C14_Inv /\ [][C14_Step]_vars

\* One worker is about to write the sitemap while another waits for the
\* mutex.
C14_Witness ==
    \E w1, w2 \in Workers :
        /\ workers[w1].pc = "write"
        /\ workers[w2].pc = "lock"
        /\ mutex[call]

\* Messages not yet received on pages: the seed message and one per
\* spawned worker that has not delivered.
Outstanding ==
    (IF seedSent THEN 0 ELSE 1) + Cardinality({w \in Workers : ~Delivered(w)})

\* C15: n is never negative and at every loop test it is the number of
\* messages not yet received; n goes up by one exactly in a step that
\* spawns one worker and down by one exactly in the step that ends the
\* iteration of one received message.
C15_Inv ==
    /\ n >= 0
    /\ pc \in {"test", "recv", "done"} => n = Outstanding

C15_Step ==
    /\ Len(workers') = Len(workers) + 1 <=> n' = n + 1
    /\ (pc = "range" /\ pc' = "test") <=> n' = n - 1
    /\ n' \in {n - 1, n, n + 1}
    /\ Len(workers') \in {Len(workers), Len(workers) + 1}

C15_ClosedAccount == []C15_Inv /\ [][C15_Step]_vars

\* The loop is at its test with two messages outstanding after one list
\* named one page twice.
C15_Witness ==
    /\ pc = "test"
    /\ n = 2
    /\ \E w \in Workers : Delivered(w) /\ Len(workers[w].list) = 3
                            /\ workers[w].list[1] = workers[w].list[3]

\* Workers spawned whose result is not yet in the sitemap.
NotIntegrated == Cardinality({w \in Workers : ~Wrote(w)})

\* C16 as stated: n is the number of fetches begun whose result is not yet
\* in the sitemap; the seed task is either not counted, or counted until
\* its message is received, or the list being processed is counted too.
C16_Original ==
    \/ n = NotIntegrated
    \/ n = NotIntegrated + (IF seedSent THEN 0 ELSE 1)
    \/ n = NotIntegrated + (IF seedSent THEN 0 ELSE 1) + (IF pc = "range" THEN 1 ELSE 0)

\* C16 (amended): in every state n is the number of messages not yet
\* received on pages, plus one while the scheduler is going through a
\* received list, before the n-- that ends the iteration.
C16_CountsMessages == n = Outstanding + (IF pc = "range" THEN 1 ELSE 0)

\* A worker has written its sitemap entry and waits to send; n still
\* counts it.
C16_Witness ==
    /\ pc = "recv"
    /\ n = 1
    /\ \E w \in Workers : workers[w].pc = "send" /\ workers[w].url \in DOMAIN sitemap

\* Decrements of n and receives on pages so far.
Decrements == 1 + Len(workers) - n

Receives == (IF seedSent THEN 1 ELSE 0) + Cardinality({w \in Workers : Delivered(w)})

\* C17 as stated: the decrement of an iteration precedes its receive, so
\* there are never more receives than decrements.
C17_Original == Decrements >= Receives

\* C17 (amended): the receive of an iteration leaves n as it is; n is
\* decremented by one at the end of the iteration, after the received list
\* has been gone through, and only there; the loop exits only at the test
\* that finds n = 0.
C17_Step ==
    /\ (pc = "recv" /\ pc' = "range") => n' = n
    /\ n' < n => (n' = n - 1 /\ pc = "range" /\ i > Len(links) /\ pc' = "test")
    /\ (pc = "range" /\ pc' = "test") => n' = n - 1
    /\ (pc # "done" /\ pc' = "done") => (pc = "test" /\ n = 0)

C17_DecrementAfterReceive == [][C17_Step]_vars

\* The loop test finds n = 0 after the decrement that ended the last of
\* three iterations.
C17_Witness == pc = "test" /\ n = 0 /\ Receives = 3 /\ Decrements = 3

\* C18: the counter channel is empty whenever no worker is inside
\* fetcher.Get, whatever workers wait for the mutex or to send; and until
\* the loop has exited some goroutine can always take a step.
C18_NoDeadlock ==
    /\ (\A w \in Workers : workers[w].pc \in {"lock", "write", "unlock", "send", "done"})
         => counter = 0
    /\ (\E w \in Workers : workers[w].pc = "acquire" /\ ~ENABLED Acquire(w))
         => \E v \in Workers : workers[v].pc \in {"get", "release"}
    /\ pc # "done" => ENABLED Next

\* With more workers than slots: one worker waits to send to the busy
\* scheduler while the other is inside fetcher.Get.
C18_Witness ==
    /\ Len(workers) > K
    /\ pc = "range"
    /\ \E w1, w2 \in Workers : workers[w1].pc = "send" /\ workers[w2].pc = "get"

\* C19: a worker that is ready to send or has delivered has its entry in
\* the sitemap, holding the list it sends; once the loop has exited no step
\* changes the sitemap.
C19_Inv ==
    \A w \in Workers :
        workers[w].pc \in {"send", "done"} =>
            /\ workers[w].url \in DOMAIN sitemap
            /\ sitemap[workers[w].url] = workers[w].list

C19_Step == pc = "done" => sitemap' = sitemap

C19_WriteBeforeSend == []C19_Inv /\ [][C19_Step]_vars

\* The scheduler has received the empty list of one worker, whose entry is
\* in the sitemap, while another worker has not written yet.
C19_Witness ==
    /\ pc = "range"
    /\ \E w1, w2 \in Workers :
         /\ Delivered(w1)
         /\ workers[w1].list = <<>>
         /\ workers[w1].url \in DOMAIN sitemap
         /\ workers[w2].pc = "write"

\* C20: the seed is tested like any link.  An eligible seed has exactly one
\* worker once its message is processed and is a key when crawlDomain
\* returns; for an image seed no worker is ever spawned, the sitemap stays
\* empty and the loop exits after the seed message alone.
C20_SeedTested ==
    /\ Eligible(seed) =>
         /\ Cardinality(WorkersOf(seed)) = (IF visited[seed] THEN 1 ELSE 0)
         /\ (seedSent /\ (pc # "range" \/ i > 1)) => visited[seed]
         /\ pc = "done" => seed \in DOMAIN sitemap
    /\ isImageLink(seed) =>
         /\ workers = <<>>
         /\ sitemap = <<>>
         /\ VisitedUrls = {}
         /\ pc = "done" => (seedSent /\ n = 0)

\* crawlDomain was called with an image URL and has returned.
C20_Witness == pc = "done" /\ isImageLink(seed) /\ seedSent /\ sitemap = <<>>

====
